---- MODULE Spec2Model ----
(***************************************************************************)
(* Model of the backtesting engine of trading_engine:                      *)
(*   backtesting/engine.py  BacktestEngine (run, _generate_orders,         *)
(*                          _execute_order, _update_portfolio_value,       *)
(*                          _calculate_metrics)                            *)
(*   risk/portfolio.py      PortfolioRiskManager.calculate_position_size   *)
(*   strategies/combined.py CombinedStrategy (__init__,                    *)
(*                          _aggregate_signals)                            *)
(*   execution/broker.py    Order, BrokerManager (submit_order,            *)
(*                          cancel_order, get_order)                       *)
(*   execution/orders.py    OrderManager (submit_order, cancel_order,      *)
(*                          update_orders, get_active_orders,              *)
(*                          cancel_all_orders)                             *)
(*                                                                         *)
(* Python floats are modelled as exact rationals <<n, d>> (d > 0, lowest   *)
(* terms), so every arithmetic identity below is the identity over the     *)
(* reals; IEEE-754 rounding is not modelled.                               *)
(* The first level of the bar index is taken to be in chronological order, *)
(* so the i-th date of the run is modelled by the number i.                *)
(***************************************************************************)
EXTENDS Integers, Sequences, FiniteSets, TLC

(***************************************************************************)
(* Bounds of the model.                                                    *)
(***************************************************************************)
MaxDays == 3
MaxMagnitude == 1000000000
MaxRows == 4
MaxOrders == 2

(***************************************************************************)
(* Exact rational arithmetic.  A value whose numerator or denominator      *)
(* would exceed MaxMagnitude is Big; Big propagates through every          *)
(* operation, and no action takes a step whose result contains Big.        *)
(***************************************************************************)
Abs(x) == IF x < 0 THEN -x ELSE x

RECURSIVE GCD(_, _)
GCD(a, b) == IF b = 0 THEN a ELSE GCD(b, a % b)

Zero == <<0, 1>>
One == <<1, 1>>
Big == <<0, 0>>
Num(k) == <<k, 1>>
IsBig(a) == a[2] = 0

MulOk(x, y) == x = 0 \/ y = 0 \/ Abs(x) <= MaxMagnitude \div Abs(y)

Frac(n, d) ==
    LET s == IF d < 0 THEN -1 ELSE 1
        g == GCD(Abs(n), Abs(d))
    IN  IF Abs(n) \div g > MaxMagnitude \/ Abs(d) \div g > MaxMagnitude
        THEN Big
        ELSE <<(s * n) \div g, (s * d) \div g>>

RAdd(a, b) ==
    IF IsBig(a) \/ IsBig(b) THEN Big
    ELSE LET g == GCD(a[2], b[2])
             m1 == b[2] \div g
             m2 == a[2] \div g
         IN  IF MulOk(a[1], m1) /\ MulOk(b[1], m2) /\ MulOk(m2, b[2])
             THEN Frac(a[1] * m1 + b[1] * m2, m2 * b[2])
             ELSE Big

RNeg(a) == <<-a[1], a[2]>>
RSub(a, b) == RAdd(a, RNeg(b))

RMul(a, b) ==
    IF IsBig(a) \/ IsBig(b) THEN Big
    ELSE LET g1 == GCD(Abs(a[1]), b[2])
             g2 == GCD(Abs(b[1]), a[2])
             n1 == a[1] \div g1
             n2 == b[1] \div g2
             d1 == a[2] \div g2
             d2 == b[2] \div g1
         IN  IF MulOk(n1, n2) /\ MulOk(d1, d2)
             THEN <<n1 * n2, d1 * d2>>
             ELSE Big

RInv(a) == IF a[1] < 0 THEN <<-a[2], -a[1]>> ELSE <<a[2], a[1]>>
RDiv(a, b) == RMul(a, RInv(b))

\* a < b, by cross-multiplication where that fits and by comparing the
\* integer parts and then the inverted fractional parts where it does not;
\* Big compares above every value
RECURSIVE RLt(_, _)
RLt(a, b) ==
    IF IsBig(a) THEN FALSE
    ELSE IF IsBig(b) THEN TRUE
    ELSE IF MulOk(a[1], b[2]) /\ MulOk(b[1], a[2])
    THEN a[1] * b[2] < b[1] * a[2]
    ELSE LET fa == a[1] \div a[2]
             fb == b[1] \div b[2]
             ra == a[1] % a[2]
             rb == b[1] % b[2]
         IN  IF fa # fb THEN fa < fb
             ELSE IF ra = 0 THEN rb > 0
             ELSE IF rb = 0 THEN FALSE
             ELSE RLt(<<b[2], rb>>, <<a[2], ra>>)
RLe(a, b) == ~RLt(b, a)
RAbs(a) == <<Abs(a[1]), a[2]>>
RMin(a, b) == IF IsBig(a) \/ IsBig(b) THEN Big ELSE IF RLt(b, a) THEN b ELSE a
RMax(a, b) == IF IsBig(a) \/ IsBig(b) THEN Big ELSE IF RLt(a, b) THEN b ELSE a

(***************************************************************************)
(* Inputs: configuration, bars and signals.                                *)
(***************************************************************************)
Symbols == {"A", "B"}
SymbolLists == {<<"A">>, <<"A", "A">>, <<"A", "B">>, <<"A", "B", "A">>}

BUY == 1
SELL == -1
HOLD == 0
SignalType == {BUY, SELL, HOLD}

InitialCapitals == {Num(100000)}
CommissionRates == {Zero, <<1, 2000>>}
Slippages == {Zero, <<1, 100>>}
MaxPositionSizes == {<<1, 100>>, One}
MaxPortfolioRisk == <<1, 50>>
Prices == {Num(100), Num(110)}
Strengths == {<<1, 2>>, Num(-2)}

None == <<>>

SeqSet(s) == {s[k] : k \in 1..Len(s)}

\* slippage is modelled together with a commission
Configs ==
    {c \in
    [symbols : SymbolLists,
     initial_capital : InitialCapitals,
     commission_rate : CommissionRates,
     slippage : Slippages,
     max_position_size : MaxPositionSizes,
     max_portfolio_risk : {MaxPortfolioRisk},
     has_momentum : BOOLEAN] :
        c.slippage = Zero \/ c.commission_rate # Zero}

\* the bars of one date: a close for every symbol that has a bar that date
DayBars(symbols) ==
    UNION {[S -> Prices] : S \in (SUBSET SeqSet(symbols)) \ {{}}}

\* one row of the signal table: a signal per symbol and, when the strategy
\* provides it, the momentum column (read only for a BUY signal; the BUY
\* symbols of one date carry the same strength)
DaySignals(symbols) == [SeqSet(symbols) -> SignalType]
DayMomentum(symbols, sig, has_momentum) ==
    IF has_momentum
    THEN {[s \in SeqSet(symbols) |-> IF sig[s] = BUY THEN v ELSE Zero] :
             v \in Strengths}
    ELSE {[s \in {} |-> Zero]}

(***************************************************************************)
(* PortfolioRiskManager.calculate_position_size                            *)
(***************************************************************************)
RECURSIVE SumValues(_)
SumValues(f) ==
    IF DOMAIN f = {} THEN Zero
    ELSE LET k == CHOOSE k \in DOMAIN f : TRUE
         IN  RAdd(f[k], SumValues([j \in DOMAIN f \ {k} |-> f[j]]))

SevenTenths == <<7, 10>>
ThreeTenths == <<3, 10>>

\* variant: the signal-strength factor is not clamped to 1
calculate_position_size_NoClamp(rm, portfolio_value, signal_strength, current_positions, volatility) ==
    IF volatility # None /\ volatility = Zero
    THEN [raised |-> TRUE, value |-> Zero]
    ELSE
    LET size1 == RMul(portfolio_value, rm.max_position_size)
        size2 == IF volatility # None
                 THEN RMin(size1, RDiv(RMul(portfolio_value, rm.max_portfolio_risk), volatility))
                 ELSE size1
        size3 == IF signal_strength # None
                 THEN RMul(size2, RAbs(signal_strength))
                 ELSE size2
        current_exposure == SumValues(current_positions)
        portfolio_utilization ==
            IF RLt(Zero, portfolio_value)
            THEN RDiv(current_exposure, portfolio_value) ELSE Zero
        size4 == IF RLt(SevenTenths, portfolio_utilization)
                 THEN RMul(size3,
                           RMax(RSub(One, RDiv(RSub(portfolio_utilization, SevenTenths),
                                               ThreeTenths)), Zero))
                 ELSE size3
    IN  [raised |-> FALSE, value |-> size4]

\* the result is [raised, value]; raised is the ZeroDivisionError of
\* the division by a zero volatility
calculate_position_size(rm, portfolio_value, signal_strength, current_positions, volatility) ==
    IF volatility # None /\ volatility = Zero
    THEN [raised |-> TRUE, value |-> Zero]
    ELSE
    LET size1 == RMul(portfolio_value, rm.max_position_size)
        size2 == IF volatility # None
                 THEN RMin(size1, RDiv(RMul(portfolio_value, rm.max_portfolio_risk), volatility))
                 ELSE size1
        size3 == IF signal_strength # None
                 THEN RMul(size2, RMin(RMax(RAbs(signal_strength), Zero), One))
                 ELSE size2
        current_exposure == SumValues(current_positions)
        portfolio_utilization ==
            IF RLt(Zero, portfolio_value)
            THEN RDiv(current_exposure, portfolio_value) ELSE Zero
        size4 == IF RLt(SevenTenths, portfolio_utilization)
                 THEN RMul(size3,
                           RMax(RSub(One, RDiv(RSub(portfolio_utilization, SevenTenths),
                                               ThreeTenths)), Zero))
                 ELSE size3
    IN  [raised |-> FALSE, value |-> size4]

(***************************************************************************)
(* State.                                                                  *)
(***************************************************************************)
VARIABLES
    cfg,           \* constructor arguments of engine, strategy and risk manager
    portfolio,     \* self.portfolio: cash, positions, equity, trades
    pc,            \* position of run()
    dates,         \* number of dates of the fetched bar table
    i,             \* index of the day loop (0-based)
    current_data,  \* bars of the current date: symbol -> close
    day_signals,   \* row of the signal table for the current date
    orders,        \* orders of the current date still to be executed
    results,       \* the daily result rows
    ret,           \* what run() returned
    signals_asked, \* strategy.generate_signals has been called
    sizer,         \* a direct call of calculate_position_size: arguments and result
    combined,      \* a CombinedStrategy: constructor arguments, object, aggregation
    rerun,         \* calls of run on one engine: number, fetched tables, first result
    execution      \* Order objects, connector's orders, BrokerManager, OrderManager

vars == <<cfg, portfolio, pc, dates, i, current_data, day_signals, orders,
          results, ret, signals_asked, sizer, combined,
          rerun,
          execution>>

NoData == [s \in {} |-> Zero]
NoSizerCall == [called |-> FALSE]
NoCombined == [kind |-> "none"]
NoReturn == [kind |-> "none"]
NoRerun == [calls |-> 0]

\* symbols of the orders handed to the OrderManager
OrderSymbols == {"A", "B"}

\* BrokerManager.__init__ and OrderManager.__init__ over a connector that has
\* no order yet.  heap holds the Order objects (an object is its index, so
\* two lists holding the same index hold the same object); table is the
\* connector's own record of the orders it accepted, by id; keys is the
\* insertion order of the keys of the dict active_orders; last is the last
\* call, with the arguments and the returned value of update_orders and of
\* cancel_all_orders.
NoExecution ==
    [heap |-> <<>>,
     table |-> <<>>,
     broker_orders |-> <<>>,
     orders |-> <<>>,
     keys |-> <<>>,
     active_orders |-> [s \in OrderSymbols |-> <<>>],
     last |-> [op |-> "none"]]

Get(positions, symbol) ==
    IF symbol \in DOMAIN positions THEN positions[symbol] ELSE Zero

\* BacktestEngine.__init__
InitialPortfolio(c) ==
    [cash |-> c.initial_capital,
     positions |-> [s \in {} |-> Zero],
     equity |-> c.initial_capital,
     trades |-> <<>>]

Init ==
    /\ cfg \in Configs
    /\ portfolio = InitialPortfolio(cfg)
    /\ pc = "constructed"
    /\ dates = 0
    /\ i = 0
    /\ current_data = NoData
    /\ day_signals = NoData
    /\ orders = <<>>
    /\ results = <<>>
    /\ ret = NoReturn
    /\ signals_asked = FALSE
    /\ sizer = NoSizerCall
    /\ combined = NoCombined
    /\ rerun = NoRerun
    /\ execution = NoExecution

(***************************************************************************)
(* BacktestEngine._generate_orders                                         *)
(***************************************************************************)
\* the orders of symbols[k..], from the ledger p as it is when the day starts;
\* raised is the KeyError of current_data.loc[symbol, 'close'] for a symbol
\* without a bar that date
BuyOrder(symbol, position_size, price) ==
    [symbol |-> symbol, action |-> "BUY",
     quantity |-> RDiv(position_size, price), price |-> price]

RECURSIVE GenerateFrom(_, _, _, _, _, _)
GenerateFrom(k, c, p, sig, mom, data) ==
    IF k > Len(c.symbols) THEN [raised |-> FALSE, orders |-> <<>>]
    ELSE
    LET symbol == c.symbols[k]
        rest == GenerateFrom(k + 1, c, p, sig, mom, data)
        signal == sig[symbol]
        current_position == Get(p.positions, symbol)
    IN  IF symbol \notin DOMAIN sig THEN rest
        ELSE IF signal = BUY /\ RLe(current_position, Zero)
        THEN IF symbol \notin DOMAIN data
             THEN [raised |-> TRUE, orders |-> <<>>]
             ELSE LET price == data[symbol]
                      position_size ==
                          calculate_position_size(c, p.equity, Get(mom, symbol),
                                                  p.positions, None).value
                  IN  IF RLt(Zero, position_size)
                      THEN [raised |-> rest.raised,
                            orders |-> <<BuyOrder(symbol, position_size, price)>>
                                           \o rest.orders]
                      ELSE rest
        ELSE IF signal = SELL /\ RLt(Zero, current_position)
        THEN IF symbol \notin DOMAIN data
             THEN [raised |-> TRUE, orders |-> <<>>]
             ELSE [raised |-> rest.raised,
                   orders |-> <<[symbol |-> symbol, action |-> "SELL",
                                 quantity |-> current_position,
                                 price |-> data[symbol]]>> \o rest.orders]
        ELSE rest

\* variant: the orders are handed over last symbol first
_generate_orders_LastSymbolFirst(c, p, sig, mom, data) ==
    LET g == GenerateFrom(1, c, p, sig, mom, data)
        n == Len(g.orders)
    IN  [raised |-> g.raised,
         orders |-> [k \in 1..n |-> g.orders[n + 1 - k]]]

_generate_orders(c, p, sig, mom, data) == GenerateFrom(1, c, p, sig, mom, data)

(***************************************************************************)
(* BacktestEngine._execute_order                                           *)
(***************************************************************************)
ExecutionPrice(c, order) ==
    RMul(order.price,
         IF order.action = "BUY" THEN RAdd(One, c.slippage) ELSE RSub(One, c.slippage))

Commission(c, order) ==
    RMul(RMul(ExecutionPrice(c, order), order.quantity), c.commission_rate)

Trade(date, order, quantity, execution_price, commission, trade_value) ==
    [date |-> date, symbol |-> order.symbol, action |-> order.action,
     quantity |-> quantity, price |-> execution_price,
     commission |-> commission, value |-> trade_value]

SetPosition(positions, symbol, quantity) ==
    [s \in DOMAIN positions \cup {symbol} |->
        IF s = symbol THEN quantity ELSE positions[s]]

PopPosition(positions, symbol) ==
    [s \in DOMAIN positions \ {symbol} |-> positions[s]]

\* variant: the trade record is inserted at the head of the log
ExecuteBuy_PrependsTrade(c, p, order, date) ==
    LET execution_price == ExecutionPrice(c, order)
        commission == Commission(c, order)
        total_cost == RAdd(RMul(execution_price, order.quantity), commission)
        short == RLt(p.cash, total_cost)
        quantity == IF IsBig(total_cost) THEN Big
                    ELSE IF short
                    THEN RDiv(RSub(p.cash, commission), execution_price)
                    ELSE order.quantity
        trade_value == RMul(execution_price, quantity)
    IN  IF short /\ RLe(quantity, Zero)
        THEN p
        ELSE [p EXCEPT
                !.cash = RSub(p.cash, RAdd(trade_value, commission)),
                !.positions = SetPosition(p.positions, order.symbol,
                                          RAdd(Get(p.positions, order.symbol), quantity)),
                !.trades = <<Trade(date, order, quantity, execution_price,
                                   commission, trade_value)>> \o p.trades]

\* variant: the shrunk quantity spends all the cash on shares, leaving
\* nothing for the commission
ExecuteBuy_ShrinkIgnoresCommission(c, p, order, date) ==
    LET execution_price == ExecutionPrice(c, order)
        commission == Commission(c, order)
        total_cost == RAdd(RMul(execution_price, order.quantity), commission)
        short == RLt(p.cash, total_cost)
        quantity == IF IsBig(total_cost) THEN Big
                    ELSE IF short
                    THEN RDiv(p.cash, execution_price)
                    ELSE order.quantity
        trade_value == RMul(execution_price, quantity)
    IN  IF short /\ RLe(quantity, Zero)
        THEN p
        ELSE [p EXCEPT
                !.cash = RSub(p.cash, RAdd(trade_value, commission)),
                !.positions = SetPosition(p.positions, order.symbol,
                                          RAdd(Get(p.positions, order.symbol), quantity)),
                !.trades = Append(p.trades,
                                  Trade(date, order, quantity, execution_price,
                                        commission, trade_value))]

\* variant: a BUY dropped for lack of cash is still recorded, as a trade of
\* no shares
ExecuteBuy_RecordsDroppedBuy(c, p, order, date) ==
    LET execution_price == ExecutionPrice(c, order)
        commission == Commission(c, order)
        total_cost == RAdd(RMul(execution_price, order.quantity), commission)
        short == RLt(p.cash, total_cost)
        quantity == IF IsBig(total_cost) THEN Big
                    ELSE IF short
                    THEN RDiv(RSub(p.cash, commission), execution_price)
                    ELSE order.quantity
        trade_value == RMul(execution_price, quantity)
    IN  IF short /\ RLe(quantity, Zero)
        THEN [p EXCEPT
                !.trades = Append(p.trades,
                                  Trade(date, order, Zero, execution_price,
                                        Zero, Zero))]
        ELSE [p EXCEPT
                !.cash = RSub(p.cash, RAdd(trade_value, commission)),
                !.positions = SetPosition(p.positions, order.symbol,
                                          RAdd(Get(p.positions, order.symbol), quantity)),
                !.trades = Append(p.trades,
                                  Trade(date, order, quantity, execution_price,
                                        commission, trade_value))]

\* variant: the commission of a shrunk BUY is recomputed from the shrunk
\* quantity
ExecuteBuy_RecomputesCommission(c, p, order, date) ==
    LET execution_price == ExecutionPrice(c, order)
        requested == Commission(c, order)
        total_cost == RAdd(RMul(execution_price, order.quantity), requested)
        short == RLt(p.cash, total_cost)
        quantity == IF IsBig(total_cost) THEN Big
                    ELSE IF short
                    THEN RDiv(RSub(p.cash, requested), execution_price)
                    ELSE order.quantity
        trade_value == RMul(execution_price, quantity)
        commission == RMul(trade_value, c.commission_rate)
    IN  IF short /\ RLe(quantity, Zero)
        THEN p
        ELSE [p EXCEPT
                !.cash = RSub(p.cash, RAdd(trade_value, commission)),
                !.positions = SetPosition(p.positions, order.symbol,
                                          RAdd(Get(p.positions, order.symbol), quantity)),
                !.trades = Append(p.trades,
                                  Trade(date, order, quantity, execution_price,
                                        commission, trade_value))]

ExecuteBuy(c, p, order, date) ==
    LET execution_price == ExecutionPrice(c, order)
        commission == Commission(c, order)
        total_cost == RAdd(RMul(execution_price, order.quantity), commission)
        short == RLt(p.cash, total_cost)
        quantity == IF IsBig(total_cost) THEN Big
                    ELSE IF short
                    THEN RDiv(RSub(p.cash, commission), execution_price)
                    ELSE order.quantity
        trade_value == RMul(execution_price, quantity)
    IN  IF short /\ RLe(quantity, Zero)
        THEN p
        ELSE [p EXCEPT
                !.cash = RSub(p.cash, RAdd(trade_value, commission)),
                !.positions = SetPosition(p.positions, order.symbol,
                                          RAdd(Get(p.positions, order.symbol), quantity)),
                !.trades = Append(p.trades,
                                  Trade(date, order, quantity, execution_price,
                                        commission, trade_value))]

\* variant: a position sold down to zero keeps its entry in the map
ExecuteSell_KeepsEmptyPosition(c, p, order, date) ==
    LET execution_price == ExecutionPrice(c, order)
        commission == Commission(c, order)
        current_position == Get(p.positions, order.symbol)
        quantity == IF RLt(current_position, order.quantity)
                    THEN current_position ELSE order.quantity
        trade_value == RMul(execution_price, quantity)
        remaining == RSub(current_position, quantity)
    IN  [p EXCEPT
            !.cash = RAdd(p.cash, RSub(trade_value, commission)),
            !.positions = SetPosition(p.positions, order.symbol, remaining),
            !.trades = Append(p.trades,
                              Trade(date, order, quantity, execution_price,
                                    commission, trade_value))]

\* variant: the proceeds of a SELL are credited without the commission
ExecuteSell_ChargesNoCommission(c, p, order, date) ==
    LET execution_price == ExecutionPrice(c, order)
        commission == Commission(c, order)
        current_position == Get(p.positions, order.symbol)
        quantity == IF RLt(current_position, order.quantity)
                    THEN current_position ELSE order.quantity
        trade_value == RMul(execution_price, quantity)
        remaining == RSub(current_position, quantity)
    IN  [p EXCEPT
            !.cash = RAdd(p.cash, trade_value),
            !.positions = IF RLe(remaining, Zero)
                          THEN PopPosition(p.positions, order.symbol)
                          ELSE SetPosition(p.positions, order.symbol, remaining),
            !.trades = Append(p.trades,
                              Trade(date, order, quantity, execution_price,
                                    commission, trade_value))]

ExecuteSell(c, p, order, date) ==
    LET execution_price == ExecutionPrice(c, order)
        commission == Commission(c, order)
        current_position == Get(p.positions, order.symbol)
        quantity == IF RLt(current_position, order.quantity)
                    THEN current_position ELSE order.quantity
        trade_value == RMul(execution_price, quantity)
        remaining == RSub(current_position, quantity)
    IN  [p EXCEPT
            !.cash = RAdd(p.cash, RSub(trade_value, commission)),
            !.positions = IF RLe(remaining, Zero)
                          THEN PopPosition(p.positions, order.symbol)
                          ELSE SetPosition(p.positions, order.symbol, remaining),
            !.trades = Append(p.trades,
                              Trade(date, order, quantity, execution_price,
                                    commission, trade_value))]

_execute_order(c, p, order, date) ==
    IF order.action = "BUY" THEN ExecuteBuy(c, p, order, date)
    ELSE ExecuteSell(c, p, order, date)

(***************************************************************************)
(* BacktestEngine._update_portfolio_value                                  *)
(***************************************************************************)
PositionValues(p, data) ==
    [s \in DOMAIN p.positions \cap DOMAIN data |-> RMul(data[s], p.positions[s])]

\* variant: equity counts the positions only
MarkToMarket_PositionsOnly(p, data) ==
    [p EXCEPT !.equity = SumValues(PositionValues(p, data))]

MarkToMarket(p, data) ==
    [p EXCEPT !.equity = RAdd(p.cash, SumValues(PositionValues(p, data)))]

ResultRow(c, p, data) ==
    [portfolio_value |-> MarkToMarket(p, data).equity,
     cash |-> p.cash,
     positions_value |-> SumValues(PositionValues(p, data)),
     position |-> [s \in SeqSet(c.symbols) |->
                      IF s \in DOMAIN p.positions \cap DOMAIN data
                      THEN p.positions[s] ELSE Zero],
     value |-> [s \in SeqSet(c.symbols) |->
                   IF s \in DOMAIN p.positions \cap DOMAIN data
                   THEN PositionValues(p, data)[s] ELSE Zero]]

\* the row every date starts with (run, lines 82-90)
InitialRow(c) ==
    [portfolio_value |-> c.initial_capital,
     cash |-> c.initial_capital,
     positions_value |-> Zero,
     position |-> [s \in SeqSet(c.symbols) |-> Zero],
     value |-> [s \in SeqSet(c.symbols) |-> Zero]]

(***************************************************************************)
(* BacktestEngine._calculate_metrics.                                      *)
(* The columns of the results table are float64: a division by zero gives  *)
(* an infinity or NaN instead of raising.  NaN and the infinities are the   *)
(* pairs with denominator -1; F-operators are the float64 operations.       *)
(* The irrational figures are kept as terms: the returns followed by 252   *)
(* is their standard deviation times the square root of 252, a quadruple   *)
(* <<n, d, e1, e2>> is (n/d) ** (e1/e2) - 1, and the quotient of two       *)
(* terms is their concatenation.                                           *)
(***************************************************************************)
NaN == <<0, -1>>
PosInf == <<1, -1>>
NegInf == <<-1, -1>>
IsInf(a) == a = PosInf \/ a = NegInf
IsFinite(a) == a[2] > 0

FNeg(a) == IF IsBig(a) THEN Big ELSE <<-a[1], a[2]>>

FAdd(a, b) ==
    IF IsBig(a) \/ IsBig(b) THEN Big
    ELSE IF a = NaN \/ b = NaN THEN NaN
    ELSE IF IsInf(a) /\ IsInf(b) THEN (IF a = b THEN a ELSE NaN)
    ELSE IF IsInf(a) THEN a
    ELSE IF IsInf(b) THEN b
    ELSE RAdd(a, b)

FSub(a, b) == FAdd(a, FNeg(b))

FMul(a, b) ==
    IF IsBig(a) \/ IsBig(b) THEN Big
    ELSE IF a = NaN \/ b = NaN THEN NaN
    ELSE IF IsInf(a) \/ IsInf(b)
    THEN IF a[1] = 0 \/ b[1] = 0 THEN NaN
         ELSE IF (a[1] > 0) = (b[1] > 0) THEN PosInf ELSE NegInf
    ELSE RMul(a, b)

FDiv(a, b) ==
    IF IsBig(a) \/ IsBig(b) THEN Big
    ELSE IF a = NaN \/ b = NaN THEN NaN
    ELSE IF IsInf(b) THEN (IF IsInf(a) THEN NaN ELSE Zero)
    ELSE IF IsInf(a) THEN (IF b[1] < 0 THEN FNeg(a) ELSE a)
    ELSE IF b = Zero
    THEN IF a[1] > 0 THEN PosInf ELSE IF a[1] < 0 THEN NegInf ELSE NaN
    ELSE RDiv(a, b)

\* a < b; every comparison with NaN is false
FLt(a, b) ==
    IF a = NaN \/ b = NaN \/ a = b THEN FALSE
    ELSE IF a = NegInf \/ b = PosInf THEN TRUE
    ELSE IF a = PosInf \/ b = NegInf THEN FALSE
    ELSE RLt(a, b)

\* Series.pct_change: values / values.shift() - 1
pct_change(values) ==
    [k \in 1..Len(values) |->
        IF k = 1 THEN NaN ELSE FSub(FDiv(values[k], values[k - 1]), One)]

RECURSIVE dropna(_)
dropna(s) ==
    IF s = <<>> THEN <<>>
    ELSE IF Head(s) = NaN THEN dropna(Tail(s))
    ELSE <<Head(s)>> \o dropna(Tail(s))

TradingDays == 252

RECURSIVE Flatten(_)
Flatten(s) == IF s = <<>> THEN <<>> ELSE Head(s) \o Flatten(Tail(s))

\* daily_returns.std() * np.sqrt(252), std with ddof = 1: NaN for fewer than
\* two returns or an infinite return, 0 for equal returns, and otherwise the
\* term made of the returns
Volatility(daily_returns) ==
    IF \E k \in 1..Len(daily_returns) : IsBig(daily_returns[k]) THEN Big
    ELSE IF Len(daily_returns) < 2 THEN NaN
    ELSE IF \E k \in 1..Len(daily_returns) : IsInf(daily_returns[k]) THEN NaN
    ELSE IF \A k \in 1..Len(daily_returns) : daily_returns[k] = daily_returns[1]
    THEN Zero
    ELSE Flatten(daily_returns) \o <<TradingDays>>

\* (1 + total_return) ** (252 / days) - 1
AnnualReturn(total_return, days) ==
    LET base == FAdd(One, total_return)
    IN  IF IsBig(base) THEN Big
        ELSE IF base = NaN THEN NaN
        ELSE IF base = One THEN Zero
        ELSE IF base = Zero THEN Num(-1)
        ELSE IF base = PosInf THEN PosInf
        ELSE IF base[1] < 0 /\ TradingDays % days # 0 THEN NaN
        ELSE IF days = TradingDays THEN total_return
        ELSE <<base[1], base[2], TradingDays, days>>

IsPositive(x) == IF Len(x) = 2 THEN FLt(Zero, x) ELSE TRUE

\* annual_return / volatility if volatility > 0 else 0
SharpeRatio(annual_return, volatility) ==
    IF IsBig(annual_return) \/ IsBig(volatility) THEN Big
    ELSE IF ~IsPositive(volatility) THEN Zero
    ELSE IF Len(volatility) = 2 THEN
         (IF Len(annual_return) = 2 THEN FDiv(annual_return, volatility)
          ELSE annual_return \o volatility)
    ELSE IF annual_return = Zero THEN Zero
    ELSE IF annual_return = NaN THEN NaN
    ELSE annual_return \o volatility

\* the drawdown columns, one date after the other: cum_return is the
\* cumulative product of 1 + daily_return.fillna(0), running_max its
\* cumulative maximum, drawdown their quotient - 1, and max_drawdown the
\* least drawdown; cummax and min skip NaN
RECURSIVE DrawdownFrom(_, _, _, _, _)
DrawdownFrom(values, k, cum_return, running_max, least) ==
    IF k > Len(values) THEN least
    ELSE
    LET change == IF k = 1 THEN NaN
                  ELSE FSub(FDiv(values[k], values[k - 1]), One)
        factor == FAdd(One, IF change = NaN THEN Zero ELSE change)
        cum == IF k = 1 THEN factor ELSE FMul(cum_return, factor)
        top == IF cum = NaN THEN running_max
               ELSE IF IsBig(cum) \/ IsBig(running_max) THEN Big
               ELSE IF FLt(running_max, cum) THEN cum ELSE running_max
        drawdown == IF cum = NaN THEN NaN ELSE FSub(FDiv(cum, top), One)
        low == IF drawdown = NaN THEN least
               ELSE IF IsBig(drawdown) \/ IsBig(least) THEN Big
               ELSE IF least = NaN \/ FLt(drawdown, least) THEN drawdown ELSE least
    IN  DrawdownFrom(values, k + 1, cum, top, low)

MaxDrawdown(values) == DrawdownFrom(values, 1, One, NegInf, NaN)

\* column.sum()
RECURSIVE SumOver(_)
SumOver(column) ==
    IF column = <<>> THEN Zero
    ELSE FAdd(SumOver(SubSeq(column, 1, Len(column) - 1)), column[Len(column)])

\* variant: a symbol sold at its average buy price counts as a win
WinRate_TiesWin(trades) ==
    LET Of(action, symbol) ==
            SelectSeq(trades, LAMBDA t : t.action = action /\ t.symbol = symbol)
        Quantity(ts) == [k \in 1..Len(ts) |-> ts[k].quantity]
        Notional(ts) ==
            [k \in 1..Len(ts) |-> RMul(ts[k].quantity, ts[k].price)]
        symbols == {trades[k].symbol : k \in 1..Len(trades)}
        sold == {s \in symbols : RLt(Zero, SumOver(Quantity(Of("SELL", s))))}
        avg_buy_price(s) ==
            IF RLt(Zero, SumOver(Quantity(Of("BUY", s))))
            THEN RDiv(SumOver(Notional(Of("BUY", s))), SumOver(Quantity(Of("BUY", s))))
            ELSE Zero
        avg_sell_price(s) ==
            RDiv(SumOver(Notional(Of("SELL", s))), SumOver(Quantity(Of("SELL", s))))
        profits == {s \in sold : RLe(avg_buy_price(s), avg_sell_price(s))}
        losses == sold \ profits
    IN  IF \E k \in 1..Len(trades) : trades[k].action = "BUY"
        THEN IF \E k \in 1..Len(trades) : trades[k].action = "SELL"
             THEN IF Cardinality(profits) + Cardinality(losses) > 0
                  THEN Frac(Cardinality(profits),
                            Cardinality(profits) + Cardinality(losses))
                  ELSE Zero
             ELSE Zero
        ELSE Zero

\* lines 317-352
WinRate(trades) ==
    LET Of(action, symbol) ==
            SelectSeq(trades, LAMBDA t : t.action = action /\ t.symbol = symbol)
        Quantity(ts) == [k \in 1..Len(ts) |-> ts[k].quantity]
        Notional(ts) ==
            [k \in 1..Len(ts) |-> RMul(ts[k].quantity, ts[k].price)]
        symbols == {trades[k].symbol : k \in 1..Len(trades)}
        sold == {s \in symbols : RLt(Zero, SumOver(Quantity(Of("SELL", s))))}
        avg_buy_price(s) ==
            IF RLt(Zero, SumOver(Quantity(Of("BUY", s))))
            THEN RDiv(SumOver(Notional(Of("BUY", s))), SumOver(Quantity(Of("BUY", s))))
            ELSE Zero
        avg_sell_price(s) ==
            RDiv(SumOver(Notional(Of("SELL", s))), SumOver(Quantity(Of("SELL", s))))
        profits == {s \in sold : RLt(avg_buy_price(s), avg_sell_price(s))}
        losses == sold \ profits
    IN  IF \E k \in 1..Len(trades) : trades[k].action = "BUY"
        THEN IF \E k \in 1..Len(trades) : trades[k].action = "SELL"
             THEN IF Cardinality(profits) + Cardinality(losses) > 0
                  THEN Frac(Cardinality(profits),
                            Cardinality(profits) + Cardinality(losses))
                  ELSE Zero
             ELSE Zero
        ELSE Zero

_calculate_metrics(c, p, rows) ==
    LET values == [k \in 1..Len(rows) |-> rows[k].portfolio_value]
        final_value == values[Len(values)]
        total_return == FSub(FDiv(final_value, c.initial_capital), One)
        annual_return == AnnualReturn(total_return, Len(rows))
        volatility == Volatility(dropna(pct_change(values)))
    IN  [initial_value |-> c.initial_capital,
         final_value |-> final_value,
         total_return |-> total_return,
         annual_return |-> annual_return,
         volatility |-> volatility,
         sharpe_ratio |-> SharpeRatio(annual_return, volatility),
         max_drawdown |-> MaxDrawdown(values),
         win_rate |-> WinRate(p.trades),
         num_trades |-> Len(p.trades)]

(***************************************************************************)
(* BacktestEngine.run, one action per step of the method.                  *)
(***************************************************************************)
\* variant: the signal table is built before the bars are looked at
RunNoData_AsksSignals ==
    /\ pc = "constructed"
    /\ pc' = "returned"
    /\ ret' = [kind |-> "error", error |-> "No data available"]
    /\ signals_asked' = TRUE
    /\ UNCHANGED <<cfg, portfolio, dates, i, current_data, day_signals, orders,
                   results, sizer, combined, rerun, execution>>

\* get_bars returned an empty table
RunNoData ==
    /\ pc = "constructed"
    /\ pc' = "returned"
    /\ ret' = [kind |-> "error", error |-> "No data available"]
    /\ UNCHANGED <<cfg, portfolio, dates, i, current_data, day_signals, orders,
                   results, signals_asked, sizer, combined, rerun, execution>>

\* get_bars returned bars for n dates; results is initialised and the
\* strategy is asked for the signal table
RunFetch ==
    /\ pc = "constructed"
    /\ \E n \in 1..MaxDays :
         /\ dates' = n
         /\ results' = [d \in 1..n |-> InitialRow(cfg)]
    /\ signals_asked' = TRUE
    /\ i' = 0
    /\ pc' = "loop"
    /\ UNCHANGED <<cfg, portfolio, current_data, day_signals, orders, ret, sizer, combined,
                   rerun, execution>>

\* i == 0: continue
SkipFirstDay ==
    /\ pc = "loop"
    /\ i = 0
    /\ i < dates
    /\ i' = 1
    /\ UNCHANGED <<cfg, portfolio, pc, dates, current_data, day_signals, orders,
                   results, ret, signals_asked, sizer, combined, rerun,
                   execution>>

\* the ledger holds no value beyond MaxMagnitude
Exact(p) ==
    /\ ~IsBig(p.cash)
    /\ ~IsBig(p.equity)
    /\ \A s \in DOMAIN p.positions : ~IsBig(p.positions[s])
    /\ \A k \in 1..Len(p.trades) :
          /\ ~IsBig(p.trades[k].quantity)
          /\ ~IsBig(p.trades[k].commission)
          /\ ~IsBig(p.trades[k].value)

\* _generate_orders for the bars and the signal row of the current date
GenerateOrdersFor(data, sig, mom) ==
    LET g == _generate_orders(cfg, portfolio, sig, mom, data)
    IN  /\ \A k \in 1..Len(g.orders) : ~IsBig(g.orders[k].quantity)
        /\ current_data' = data
        /\ day_signals' = sig
        /\ IF g.raised
           THEN /\ pc' = "raised"
                /\ orders' = <<>>
           ELSE /\ pc' = "exec"
                /\ orders' = g.orders

\* data.xs(date), signals.loc[date], _generate_orders
GenerateOrders ==
    /\ pc = "loop"
    /\ 1 <= i
    /\ i < dates
    /\ \E data \in DayBars(cfg.symbols), sig \in DaySignals(cfg.symbols) :
         \E mom \in DayMomentum(cfg.symbols, sig, cfg.has_momentum) :
           GenerateOrdersFor(data, sig, mom)
    /\ UNCHANGED <<cfg, portfolio, dates, i, results, ret, signals_asked, sizer, combined,
                   rerun, execution>>

\* one iteration of: for order in orders: self._execute_order(...)
ExecuteOrder ==
    /\ pc = "exec"
    /\ orders # <<>>
    /\ portfolio' = _execute_order(cfg, portfolio, Head(orders), i)
    /\ Exact(portfolio')
    /\ orders' = Tail(orders)
    /\ UNCHANGED <<cfg, pc, dates, i, current_data, day_signals, results, ret,
                   signals_asked, sizer, combined, rerun, execution>>

\* _update_portfolio_value, then the next date
UpdatePortfolioValue ==
    /\ pc = "exec"
    /\ orders = <<>>
    /\ portfolio' = MarkToMarket(portfolio, current_data)
    /\ Exact(portfolio')
    /\ results' = [results EXCEPT ![i + 1] = ResultRow(cfg, portfolio, current_data)]
    /\ i' = i + 1
    /\ pc' = "loop"
    /\ current_data' = NoData
    /\ day_signals' = NoData
    /\ UNCHANGED <<cfg, dates, orders, ret, signals_asked, sizer, combined, rerun,
                   execution>>

\* the metrics hold no value beyond MaxMagnitude
ExactMetrics(m) ==
    /\ ~IsBig(m.total_return)
    /\ ~IsBig(m.annual_return)
    /\ ~IsBig(m.volatility)
    /\ ~IsBig(m.sharpe_ratio)
    /\ ~IsBig(m.max_drawdown)
    /\ ~IsBig(m.win_rate)

\* the loop is over: metrics and the result
RunReturn ==
    /\ pc = "loop"
    /\ i >= dates
    /\ LET metrics == _calculate_metrics(cfg, portfolio, results)
       IN  /\ ExactMetrics(metrics)
           /\ ret' = [kind |-> "result",
                      results |-> results,
                      metrics |-> metrics,
                      trades |-> portfolio.trades,
                      final_value |-> metrics.final_value]
    /\ pc' = "returned"
    /\ UNCHANGED <<cfg, portfolio, dates, i, current_data, day_signals, orders,
                   results, signals_asked, sizer, combined, rerun, execution>>

Next ==
    \/ RunNoData
    \/ RunFetch
    \/ SkipFirstDay
    \/ GenerateOrders
    \/ ExecuteOrder
    \/ UpdatePortfolioValue
    \/ RunReturn

Spec == Init /\ [][Next]_vars

(***************************************************************************)
(* Direct calls of calculate_position_size, for the claims about the       *)
(* sizer as a function of its arguments.                                   *)
(***************************************************************************)
SizerEquities == {Zero, Num(1000), Num(100000)}
SizerStrengths == {None, Zero} \cup Strengths
SizerPositions ==
    {[s \in {} |-> Zero],
     [s \in {"A"} |-> Num(5)],
     [s \in {"A"} |-> Num(800)],
     [s \in {"A", "B"} |-> IF s = "A" THEN Num(900) ELSE Num(1100)]}
SizerVolatilities == {None, Zero, <<1, 100>>, <<1, 2>>, <<-1, 10>>}

\* the call, and the BUY order _generate_orders builds from its result
SizerCall ==
    /\ ~sizer.called
    /\ \E pv \in SizerEquities, ss \in SizerStrengths, pos \in SizerPositions,
          vol \in SizerVolatilities, price \in Prices :
         LET r == calculate_position_size(cfg, pv, ss, pos, vol)
         IN  sizer' = [called |-> TRUE,
                       portfolio_value |-> pv,
                       signal_strength |-> ss,
                       current_positions |-> pos,
                       volatility |-> vol,
                       raised |-> r.raised,
                       value |-> r.value,
                       orders |-> IF ~r.raised /\ RLt(Zero, r.value)
                                  THEN <<BuyOrder("A", r.value, price)>>
                                  ELSE <<>>]
    /\ UNCHANGED <<cfg, portfolio, pc, dates, i, current_data, day_signals, orders,
                   results, ret, signals_asked, combined, rerun, execution>>

NextSizer == SizerCall

SpecSizer == Init /\ [][NextSizer]_vars

(***************************************************************************)
(* Direct calls of _calculate_metrics on a results table, for the claims   *)
(* about the metrics as a function of the daily portfolio values.          *)
(* Row 1 is the row of the skipped first date: the initial capital.  Row 2 *)
(* is the equity after BUYs only, which is positive.  From row 3 on the    *)
(* equity can be 0 (everything is invested in a symbol that has no bar     *)
(* that date) and from row 4 on it can be negative (cash made negative by  *)
(* the commission of a SELL clipped to 0 shares on date 3, and the held    *)
(* symbol has no bar on date 4).                                           *)
(***************************************************************************)
EquityValues == {Num(-50), Zero, Num(99000), Num(100000), Num(110000)}

EquityAt(k, c) ==
    IF k = 1 THEN {c.initial_capital}
    ELSE IF k = 2 THEN {v \in EquityValues : RLt(Zero, v)}
    ELSE IF k = 3 THEN {v \in EquityValues : RLe(Zero, v)}
    ELSE EquityValues

RowSeries(c) ==
    UNION {{values \in [1..n -> EquityValues \cup {c.initial_capital}] :
               \A k \in 1..n : values[k] \in EquityAt(k, c)} : n \in 1..MaxRows}

MetricsCall ==
    /\ pc = "constructed"
    /\ \E values \in RowSeries(cfg) :
         /\ results' = [k \in 1..Len(values) |->
                           [InitialRow(cfg) EXCEPT !.portfolio_value = values[k]]]
    /\ ret' = [kind |-> "metrics",
               metrics |-> _calculate_metrics(cfg, portfolio, results')]
    /\ pc' = "returned"
    /\ UNCHANGED <<cfg, portfolio, dates, i, current_data, day_signals, orders,
                   signals_asked, sizer, combined, rerun, execution>>

NextMetrics == MetricsCall

SpecMetrics == Init /\ [][NextMetrics]_vars

(***************************************************************************)
(* strategies/combined.py  CombinedStrategy.                               *)
(* A sub-strategy is modelled by its symbols list (every entry of the      *)
(* strategies list is a strategy instance), a weights dict by a function   *)
(* from its keys to its values, and a signal array by a function from the  *)
(* dates of the signal index to SignalType.                                *)
(***************************************************************************)
MaxStrategies == 2
AggregationMethods == {"majority", "unanimous", "weighted", "median"}
SignalDates == {1, 2}

NoWeights == [given |-> FALSE]
WeightsDict(items) == [given |-> TRUE, items |-> items]

\* dicts with no entry, one entry, two entries, a key that is no position of
\* the strategies list, and values whose sum is 0
WeightItems ==
    {[k \in {} |-> Zero],
     [k \in {0} |-> One],
     [k \in {0} |-> Zero],
     [k \in {0, 1} |-> IF k = 0 THEN One ELSE Num(3)],
     [k \in {0, 7} |-> IF k = 0 THEN One ELSE Num(3)]}

WeightsArgs == {NoWeights} \cup {WeightsDict(items) : items \in WeightItems}

\* the weights check accepts every dict that has at least one entry per
\* strategy
CombinedStrategy_init_AcceptsExtraWeights(symbols, strategies, aggregation_method, weights) ==
    LET n == Len(strategies)
        Object(w) == [symbols |-> symbols,
                      strategies |-> strategies,
                      aggregation_method |-> aggregation_method,
                      weights |-> w]
    IN  IF \E k \in 1..n : SeqSet(strategies[k]) # SeqSet(symbols)
        THEN [raised |-> TRUE, error |-> "ValueError"]
        ELSE IF aggregation_method = "weighted"
        THEN IF ~weights.given
             THEN [raised |-> FALSE,
                   self |-> Object(WeightsDict([k \in 0..(n - 1) |-> Frac(1, n)]))]
             ELSE IF Cardinality(DOMAIN weights.items) < n
             THEN [raised |-> TRUE, error |-> "ValueError"]
             ELSE LET total == SumValues(weights.items)
                  IN  IF total = Zero
                      THEN [raised |-> TRUE, error |-> "ZeroDivisionError"]
                      ELSE [raised |-> FALSE,
                            self |-> Object(WeightsDict(
                                [k \in DOMAIN weights.items |->
                                    RDiv(weights.items[k], total)]))]
        ELSE [raised |-> FALSE, self |-> Object(NoWeights)]

\* CombinedStrategy.__init__
CombinedStrategy_init(symbols, strategies, aggregation_method, weights) ==
    LET n == Len(strategies)
        Object(w) == [symbols |-> symbols,
                      strategies |-> strategies,
                      aggregation_method |-> aggregation_method,
                      weights |-> w]
    IN  IF \E k \in 1..n : SeqSet(strategies[k]) # SeqSet(symbols)
        THEN [raised |-> TRUE, error |-> "ValueError"]
        ELSE IF aggregation_method = "weighted"
        THEN IF ~weights.given
             THEN [raised |-> FALSE,
                   self |-> Object(WeightsDict([k \in 0..(n - 1) |-> Frac(1, n)]))]
             ELSE IF Cardinality(DOMAIN weights.items) # n
             THEN [raised |-> TRUE, error |-> "ValueError"]
             ELSE LET total == SumValues(weights.items)
                  IN  IF total = Zero
                      THEN [raised |-> TRUE, error |-> "ZeroDivisionError"]
                      ELSE [raised |-> FALSE,
                            self |-> Object(WeightsDict(
                                [k \in DOMAIN weights.items |->
                                    RDiv(weights.items[k], total)]))]
        ELSE [raised |-> FALSE, self |-> Object(NoWeights)]

\* (signals_df == v).sum(axis=1) at date d
Votes(signal_arrays, d, v) ==
    Cardinality({k \in 1..Len(signal_arrays) : signal_arrays[k][d] = v})

Max3(a, b, c) ==
    IF a >= b /\ a >= c THEN a ELSE IF b >= c THEN b ELSE c

\* the sum over the columns k..m of signal * self.weights[k - 1] at date d
RECURSIVE WeightedSum(_, _, _, _)
WeightedSum(signal_arrays, items, d, k) ==
    IF k > Len(signal_arrays) THEN Zero
    ELSE RAdd(RMul(Num(signal_arrays[k][d]), items[k - 1]),
              WeightedSum(signal_arrays, items, d, k + 1))

\* the unknown-method branch resolves a tie between BUY and SELL as BUY
_aggregate_signals_FallbackTieBuys(self, signal_arrays) ==
    LET index == DOMAIN signal_arrays[1]
        m == Len(signal_arrays)
        buy_votes(d) == Votes(signal_arrays, d, BUY)
        sell_votes(d) == Votes(signal_arrays, d, SELL)
        hold_votes(d) == Votes(signal_arrays, d, HOLD)
        max_votes(d) == Max3(buy_votes(d), sell_votes(d), hold_votes(d))
        All(d, v) == \A k \in 1..m : signal_arrays[k][d] = v
        signal_sum(d) == WeightedSum(signal_arrays, self.weights.items, d, 1)
    IN  IF self.aggregation_method = "majority"
        THEN [raised |-> FALSE,
              value |-> [d \in index |->
                            IF sell_votes(d) = max_votes(d) THEN SELL
                            ELSE IF buy_votes(d) = max_votes(d) THEN BUY
                            ELSE HOLD]]
        ELSE IF self.aggregation_method = "unanimous"
        THEN [raised |-> FALSE,
              value |-> [d \in index |->
                            IF All(d, SELL) THEN SELL
                            ELSE IF All(d, BUY) THEN BUY
                            ELSE HOLD]]
        ELSE IF self.aggregation_method = "weighted"
        THEN IF \E k \in 0..(m - 1) : k \notin DOMAIN self.weights.items
             THEN [raised |-> TRUE, error |-> "KeyError"]
             ELSE [raised |-> FALSE,
                   value |-> [d \in index |->
                                 IF RLt(signal_sum(d), <<-1, 2>>) THEN SELL
                                 ELSE IF RLt(<<1, 2>>, signal_sum(d)) THEN BUY
                                 ELSE HOLD]]
        ELSE [raised |-> FALSE,
              value |-> [d \in index |->
                            IF buy_votes(d) = max_votes(d) THEN BUY
                            ELSE IF sell_votes(d) = max_votes(d) THEN SELL
                            ELSE HOLD]]

\* CombinedStrategy._aggregate_signals: result starts as HOLD everywhere and
\* each branch assigns BUY, then SELL, so where both masks hold the result is
\* SELL
_aggregate_signals(self, signal_arrays) ==
    LET index == DOMAIN signal_arrays[1]
        m == Len(signal_arrays)
        buy_votes(d) == Votes(signal_arrays, d, BUY)
        sell_votes(d) == Votes(signal_arrays, d, SELL)
        hold_votes(d) == Votes(signal_arrays, d, HOLD)
        max_votes(d) == Max3(buy_votes(d), sell_votes(d), hold_votes(d))
        All(d, v) == \A k \in 1..m : signal_arrays[k][d] = v
        signal_sum(d) == WeightedSum(signal_arrays, self.weights.items, d, 1)
    IN  IF self.aggregation_method = "majority"
        THEN [raised |-> FALSE,
              value |-> [d \in index |->
                            IF sell_votes(d) = max_votes(d) THEN SELL
                            ELSE IF buy_votes(d) = max_votes(d) THEN BUY
                            ELSE HOLD]]
        ELSE IF self.aggregation_method = "unanimous"
        THEN [raised |-> FALSE,
              value |-> [d \in index |->
                            IF All(d, SELL) THEN SELL
                            ELSE IF All(d, BUY) THEN BUY
                            ELSE HOLD]]
        ELSE IF self.aggregation_method = "weighted"
        THEN IF \E k \in 0..(m - 1) : k \notin DOMAIN self.weights.items
             THEN [raised |-> TRUE, error |-> "KeyError"]
             ELSE [raised |-> FALSE,
                   value |-> [d \in index |->
                                 IF RLt(signal_sum(d), <<-1, 2>>) THEN SELL
                                 ELSE IF RLt(<<1, 2>>, signal_sum(d)) THEN BUY
                                 ELSE HOLD]]
        ELSE [raised |-> FALSE,
              value |-> [d \in index |->
                            IF sell_votes(d) = max_votes(d) THEN SELL
                            ELSE IF buy_votes(d) = max_votes(d) THEN BUY
                            ELSE HOLD]]

\* the sub-strategies' symbols lists: the combined list itself or another one
StrategyLists(symbols) ==
    UNION {[1..n -> {symbols, <<"A">>}] : n \in 1..MaxStrategies}

\* the signal columns of one symbol that generate_signals collects: one per
\* sub-strategy whose signal table has the column, at least one
SignalArrays(n) ==
    UNION {[1..m -> [SignalDates -> SignalType]] : m \in 1..n}

\* the construction of a CombinedStrategy inside main's try block: an
\* exception of the constructor ends main with status 1.  main itself passes
\* its own symbols list to every sub-strategy and no weights; the arguments
\* here are those any caller of the constructor can pass.
ConstructCombined ==
    /\ combined.kind = "none"
    /\ \E strategies \in StrategyLists(cfg.symbols),
          aggregation_method \in AggregationMethods,
          weights \in WeightsArgs :
         LET r == CombinedStrategy_init(cfg.symbols, strategies,
                                        aggregation_method, weights)
             call == [symbols |-> cfg.symbols,
                      strategies |-> strategies,
                      aggregation_method |-> aggregation_method,
                      weights |-> weights]
         IN  combined' =
                 IF r.raised
                 THEN [kind |-> "raised", call |-> call, error |-> r.error,
                       status |-> 1]
                 ELSE [kind |-> "constructed", call |-> call, self |-> r.self]
    /\ UNCHANGED <<cfg, portfolio, pc, dates, i, current_data, day_signals, orders,
                   results, ret, signals_asked, sizer, rerun, execution>>

\* one call of _aggregate_signals by generate_signals
AggregateSignals ==
    /\ combined.kind = "constructed"
    /\ \E signal_arrays \in SignalArrays(Len(combined.self.strategies)) :
         LET r == _aggregate_signals(combined.self, signal_arrays)
         IN  combined' = [kind |-> "aggregated",
                          call |-> combined.call,
                          self |-> combined.self,
                          signal_arrays |-> signal_arrays,
                          raised |-> r.raised,
                          result |-> IF r.raised THEN None ELSE r.value]
    /\ UNCHANGED <<cfg, portfolio, pc, dates, i, current_data, day_signals, orders,
                   results, ret, signals_asked, sizer, rerun, execution>>

NextCombined ==
    \/ ConstructCombined
    \/ AggregateSignals

SpecCombined == Init /\ [][NextCombined]_vars

(***************************************************************************)
(* Two calls of run on one engine instance, with the same connector and    *)
(* strategy: get_bars and generate_signals return the same tables both     *)
(* times.  The tables are fixed when the first call fetches them; every    *)
(* date has a bar of every symbol, the symbols of one date share the close *)
(* and the signal, and the first date's signal row, which run never reads, *)
(* is HOLD.  run does not touch self.portfolio before the day loop, so the *)
(* second call starts from the ledger the first one left.                  *)
(***************************************************************************)
TableRows(c) ==
    UNION {{[data |-> [s \in SeqSet(c.symbols) |-> price],
             sig |-> [s \in SeqSet(c.symbols) |-> signal],
             mom |-> mom] :
               mom \in DayMomentum(c.symbols,
                                   [s \in SeqSet(c.symbols) |-> signal],
                                   c.has_momentum)} :
           price \in Prices, signal \in SignalType}

Tables(c) ==
    UNION {{t \in [1..n -> TableRows(c)] :
               \A s \in SeqSet(c.symbols) : t[1].sig[s] = HOLD} :
           n \in 1..MaxDays}

\* the first call, up to the day loop
RunFetchTables ==
    /\ pc = "constructed"
    /\ rerun.calls = 0
    /\ \E table \in Tables(cfg) :
         /\ dates' = Len(table)
         /\ results' = [d \in 1..Len(table) |-> InitialRow(cfg)]
         /\ rerun' = [calls |-> 1, table |-> table, first |-> NoReturn]
    /\ signals_asked' = TRUE
    /\ i' = 0
    /\ pc' = "loop"
    /\ UNCHANGED <<cfg, portfolio, current_data, day_signals, orders, ret, sizer,
                   combined, execution>>

\* data.xs(date), signals.loc[date], _generate_orders on the fetched tables
GenerateOrdersFromTables ==
    /\ pc = "loop"
    /\ rerun.calls > 0
    /\ 1 <= i
    /\ i < dates
    /\ LET row == rerun.table[i + 1]
       IN  GenerateOrdersFor(row.data, row.sig, row.mom)
    /\ UNCHANGED <<cfg, portfolio, dates, i, results, ret, signals_asked, sizer,
                   combined, rerun, execution>>

\* the second call, up to the day loop: the first call's result is with the
\* caller, results is a new table, self.portfolio is as the first call left it
RunAgain ==
    /\ pc = "returned"
    /\ rerun.calls = 1
    /\ ret.kind = "result"
    /\ rerun' = [rerun EXCEPT !.calls = 2, !.first = ret]
    /\ ret' = NoReturn
    /\ results' = [d \in 1..dates |-> InitialRow(cfg)]
    /\ i' = 0
    /\ pc' = "loop"
    /\ UNCHANGED <<cfg, portfolio, dates, current_data, day_signals, orders,
                   signals_asked, sizer, combined, execution>>

NextRerun ==
    \/ RunFetchTables
    \/ SkipFirstDay
    \/ GenerateOrdersFromTables
    \/ ExecuteOrder
    \/ UpdatePortfolioValue
    \/ RunReturn
    \/ RunAgain

SpecRerun == Init /\ [][NextRerun]_vars

(***************************************************************************)
(* The execution path: execution/broker.py and execution/orders.py.        *)
(* The broker connector is not part of the package; it is modelled as an   *)
(* environment that keeps its own table of orders, never changes an order  *)
(* it has filled, canceled or rejected, accepts a cancellation exactly for *)
(* an order that is still open, and may raise on any call.  One call of an *)
(* operation sees the connector either answering (up) or raising.          *)
(***************************************************************************)
OrderStatus ==
    {"new", "filled", "partially_filled", "canceled", "rejected", "pending"}

\* the statuses after which update_orders drops an order from active_orders
TerminalStatuses == {"filled", "canceled", "rejected"}

\* what the connector answers to submit_order: a status, or an exception
SubmitResponses == {"new", "filled", "rejected", "raise"}

\* Order.__init__
NewOrder(symbol) == [symbol |-> symbol, status |-> "new", id |-> 0]

\* the index in list of the first order whose id is order_id, 0 if none
FirstWithId(heap, list, order_id) ==
    LET hits == {k \in 1..Len(list) : heap[list[k]].id = order_id}
    IN  IF hits = {} THEN 0 ELSE CHOOSE k \in hits : \A j \in hits : k <= j

\* list after orders.pop(i) at the first order whose id is order_id
PopFirstWithId(heap, list, order_id) ==
    LET k == FirstWithId(heap, list, order_id)
    IN  IF k = 0 THEN list
        ELSE SubSeq(list, 1, k - 1) \o SubSeq(list, k + 1, Len(list))

\* BrokerManager.submit_order
BrokerManager_submit_order(e, order, response) ==
    IF response = "raise"
    THEN [e EXCEPT !.heap[order].status = "rejected"]
    ELSE [e EXCEPT !.table = Append(@, response),
                   !.heap[order] = [@ EXCEPT !.id = Len(e.table) + 1,
                                             !.status = response],
                   !.broker_orders = Append(@, order)]

\* OrderManager.submit_order
OrderManager_submit_order(e, order, response) ==
    LET b == BrokerManager_submit_order(e, order, response)
        symbol == b.heap[order].symbol
        listed == [b EXCEPT !.orders = Append(@, order)]
    IN  IF b.heap[order].status # "rejected"
        THEN [listed EXCEPT
                 !.keys = IF \E k \in 1..Len(@) : @[k] = symbol
                          THEN @ ELSE Append(@, symbol),
                 !.active_orders[symbol] = Append(@, order)]
        ELSE listed

\* BrokerManager.cancel_order
BrokerManager_cancel_order(e, order_id, up) ==
    IF order_id \notin 1..Len(e.broker_orders)
    THEN [e |-> e, success |-> FALSE]
    ELSE IF ~up
    THEN [e |-> e, success |-> FALSE]
    ELSE IF e.table[order_id] \in TerminalStatuses
    THEN [e |-> e, success |-> FALSE]
    ELSE [e |-> [e EXCEPT !.table[order_id] = "canceled",
                          !.heap[e.broker_orders[order_id]].status =
                              "canceled"],
          success |-> TRUE]

\* OrderManager.cancel_order
OrderManager_cancel_order(e, order_id, up) ==
    LET b == BrokerManager_cancel_order(e, order_id, up)
        first == FirstWithId(b.e.heap, b.e.orders, order_id)
        marked == IF first = 0 THEN b.e
                  ELSE [b.e EXCEPT !.heap[b.e.orders[first]].status =
                                       "canceled"]
    IN  IF b.success
        THEN [e |-> [marked EXCEPT
                        !.active_orders =
                            [s \in OrderSymbols |->
                                PopFirstWithId(marked.heap, @[s], order_id)]],
              success |-> TRUE]
        ELSE b

\* BrokerManager.get_order; order 0 is None
BrokerManager_get_order(e, order_id, up) ==
    IF order_id \notin 1..Len(e.broker_orders)
    THEN [e |-> e, order |-> 0]
    ELSE IF ~up
    THEN [e |-> e, order |-> e.broker_orders[order_id]]
    ELSE [e |-> [e EXCEPT !.heap[e.broker_orders[order_id]].status =
                              e.table[order_id]],
          order |-> e.broker_orders[order_id]]

\* OrderManager.get_active_orders(None): a new list, in the order of the keys
get_active_orders(e) ==
    Flatten([k \in 1..Len(e.keys) |-> e.active_orders[e.keys[k]]])

\* the loop of OrderManager.update_orders from the k-th order of the
\* flattened list on
RECURSIVE update_orders_loop(_, _, _, _, _)
update_orders_loop(e, active, k, filled_orders, up) ==
    IF k > Len(active)
    THEN [e |-> e, filled_orders |-> filled_orders]
    ELSE
    LET order == active[k]
        order_id == e.heap[order].id
        g == BrokerManager_get_order(e, order_id, up)
        updated_order == g.order
    IN  IF updated_order = 0
        THEN update_orders_loop(g.e, active, k + 1, filled_orders, up)
        ELSE IF g.e.heap[updated_order].status = g.e.heap[order].status
        THEN update_orders_loop(g.e, active, k + 1, filled_orders, up)
        ELSE
        LET first == FirstWithId(g.e.heap, g.e.orders, order_id)
            replaced == IF first = 0 THEN g.e
                        ELSE [g.e EXCEPT !.orders[first] = updated_order]
            status == replaced.heap[updated_order].status
            symbol == replaced.heap[updated_order].symbol
            Other(o) == replaced.heap[o].id # order_id
            removed ==
                IF status \in TerminalStatuses
                THEN [replaced EXCEPT
                         !.active_orders[symbol] = SelectSeq(@, Other)]
                ELSE replaced
        IN  update_orders_loop(removed, active, k + 1,
                               IF status = "filled"
                               THEN Append(filled_orders, updated_order)
                               ELSE filled_orders,
                               up)

\* OrderManager.update_orders
update_orders(e, up) == update_orders_loop(e, get_active_orders(e), 1, <<>>, up)

\* the loop of OrderManager.cancel_all_orders from the k-th order on.  With a
\* symbol, orders_to_cancel is the list active_orders[symbol] itself, which
\* cancel_order pops from during the iteration; without one it is the new
\* list all, made before the loop.
RECURSIVE cancel_all_orders_loop(_, _, _, _, _, _)
cancel_all_orders_loop(e, symbol, all, k, canceled_count, up) ==
    LET orders_to_cancel ==
            IF symbol = "None" THEN all ELSE e.active_orders[symbol]
    IN  IF k > Len(orders_to_cancel)
        THEN [e |-> e, canceled_count |-> canceled_count]
        ELSE
        LET c == OrderManager_cancel_order(
                     e, e.heap[orders_to_cancel[k]].id, up)
        IN  cancel_all_orders_loop(c.e, symbol, all, k + 1,
                                   IF c.success THEN canceled_count + 1
                                   ELSE canceled_count,
                                   up)

\* OrderManager.cancel_all_orders; symbol "None" is the default argument
cancel_all_orders(e, symbol, up) ==
    cancel_all_orders_loop(e, symbol, get_active_orders(e), 1, 0, up)

\* order_manager.submit_order(order) with a newly created order
SubmitOrder ==
    /\ Len(execution.orders) < MaxOrders
    /\ \E symbol \in OrderSymbols, response \in SubmitResponses :
         LET created == [execution EXCEPT
                            !.heap = Append(@, NewOrder(symbol))]
             order == Len(created.heap)
         IN  execution' =
                 [OrderManager_submit_order(created, order, response) EXCEPT
                     !.last = [op |-> "submit_order"]]
    /\ UNCHANGED <<cfg, portfolio, pc, dates, i, current_data, day_signals,
                   orders, results, ret, signals_asked, sizer, combined,
                   rerun>>

\* order_manager.submit_order(order) with an order that submit_order has
\* returned before
ResubmitOrder ==
    /\ Len(execution.orders) < MaxOrders
    /\ \E order \in 1..Len(execution.heap), response \in SubmitResponses :
         execution' =
             [OrderManager_submit_order(execution, order, response) EXCEPT
                 !.last = [op |-> "submit_order"]]
    /\ UNCHANGED <<cfg, portfolio, pc, dates, i, current_data, day_signals,
                   orders, results, ret, signals_asked, sizer, combined,
                   rerun>>

\* order_manager.cancel_order(order_id)
CancelOrder ==
    /\ \E order_id \in 1..MaxOrders, up \in BOOLEAN :
         LET c == OrderManager_cancel_order(execution, order_id, up)
         IN  execution' =
                 [c.e EXCEPT !.last = [op |-> "cancel_order"]]
    /\ UNCHANGED <<cfg, portfolio, pc, dates, i, current_data, day_signals,
                   orders, results, ret, signals_asked, sizer, combined,
                   rerun>>

\* broker_manager.get_order(order_id)
GetOrder ==
    /\ \E order_id \in 1..MaxOrders, up \in BOOLEAN :
         LET g == BrokerManager_get_order(execution, order_id, up)
         IN  execution' =
                 [g.e EXCEPT !.last = [op |-> "get_order"]]
    /\ UNCHANGED <<cfg, portfolio, pc, dates, i, current_data, day_signals,
                   orders, results, ret, signals_asked, sizer, combined,
                   rerun>>

\* order_manager.update_orders()
UpdateOrders ==
    /\ \E up \in BOOLEAN :
         LET u == update_orders(execution, up)
         IN  execution' =
                 [u.e EXCEPT !.last = [op |-> "update_orders",
                                       up |-> up,
                                       value |-> u.filled_orders]]
    /\ UNCHANGED <<cfg, portfolio, pc, dates, i, current_data, day_signals,
                   orders, results, ret, signals_asked, sizer, combined,
                   rerun>>

\* order_manager.cancel_all_orders(symbol)
CancelAllOrders ==
    /\ \E symbol \in OrderSymbols \cup {"None"}, up \in BOOLEAN :
         LET c == cancel_all_orders(execution, symbol, up)
         IN  execution' =
                 [c.e EXCEPT !.last = [op |-> "cancel_all_orders",
                                       symbol |-> symbol,
                                       up |-> up,
                                       value |-> c.canceled_count]]
    /\ UNCHANGED <<cfg, portfolio, pc, dates, i, current_data, day_signals,
                   orders, results, ret, signals_asked, sizer, combined,
                   rerun>>

\* what the connector's venue does with an open order between two calls
ConnectorTransitions ==
    {<<"new", "partially_filled">>, <<"new", "filled">>,
     <<"new", "canceled">>,
     <<"partially_filled", "filled">>, <<"partially_filled", "canceled">>}

ConnectorStep ==
    /\ \E order_id \in 1..Len(execution.table), status \in OrderStatus :
         /\ <<execution.table[order_id], status>> \in ConnectorTransitions
         /\ execution' = [execution EXCEPT !.table[order_id] = status,
                                           !.last = [op |-> "connector"]]
    /\ UNCHANGED <<cfg, portfolio, pc, dates, i, current_data, day_signals,
                   orders, results, ret, signals_asked, sizer, combined,
                   rerun>>

NextExecution ==
    \/ SubmitOrder
    \/ ResubmitOrder
    \/ CancelOrder
    \/ GetOrder
    \/ UpdateOrders
    \/ CancelAllOrders
    \/ ConnectorStep

SpecExecution == Init /\ [][NextExecution]_vars

(***************************************************************************)
(* Claims.                                                                 *)
(***************************************************************************)
LastTrade(p) == p.trades[Len(p.trades)]
Held(p) == DOMAIN p.positions

\* C1: at every day boundary of a run (before a day's orders are generated,
\* and when run returns) the ledger's cash is >= 0.
C1_NoNegativeCash ==
    pc \in {"loop", "returned"} => RLe(Zero, portfolio.cash)

\* C2: the step that ends a day leaves equity = cash + the sum, over the held
\* symbols with a close that day, of quantity * close, and writes exactly that
\* equity, cash and positions value into the day's result row.
C2_Valuation(p, data) ==
    LET priced == {s \in Held(p) : s \in DOMAIN data}
    IN  SumValues([s \in priced |-> RMul(p.positions[s], data[s])])

C2_EquityIdentity ==
    [][(pc = "exec" /\ pc' = "loop") =>
         /\ portfolio'.equity =
                RAdd(portfolio'.cash, C2_Valuation(portfolio', current_data))
         /\ results'[i'].portfolio_value = portfolio'.equity
         /\ results'[i'].cash = portfolio'.cash
         /\ results'[i'].positions_value = C2_Valuation(portfolio', current_data)]_vars

\* a day has ended with one held symbol priced and another held symbol
\* without a bar, so that only the first was valued
C2_Witness ==
    /\ pc = "loop"
    /\ i >= 2
    /\ \E s \in Held(portfolio) : results[i].position[s] = Zero
    /\ \E s \in Held(portfolio) : results[i].position[s] # Zero
    /\ portfolio.equity # portfolio.cash

\* C3: every entry of the positions map has a strictly positive quantity.
C3_LongOnly ==
    \A s \in Held(portfolio) : RLt(Zero, portfolio.positions[s])

\* a SELL has emptied a position while another symbol is still held
C3_Witness ==
    /\ portfolio.trades # <<>>
    /\ LastTrade(portfolio).action = "SELL"
    /\ LastTrade(portfolio).symbol \notin Held(portfolio)
    /\ Held(portfolio) # {}

C5_Cap == RMul(cfg.max_position_size, sizer.portfolio_value)

C5_PositionSizeCap ==
    (sizer.called /\ ~sizer.raised) =>
        /\ RLe(sizer.value, C5_Cap)
        /\ \A k \in 1..Len(sizer.orders) :
              RLe(RMul(sizer.orders[k].quantity, sizer.orders[k].price), C5_Cap)

\* a call with a volatility, a signal strength above 1 and no reduction for
\* utilization returned the whole cap and a BUY order was built from it
C5_Witness ==
    /\ sizer.called
    /\ ~sizer.raised
    /\ sizer.volatility # None
    /\ sizer.signal_strength = Num(-2)
    /\ sizer.value = C5_Cap
    /\ Len(sizer.orders) = 1

\* C6: every executed SELL, clipped or not, changes cash by
\* q * execution_price - q * execution_price * commission_rate, q being the
\* quantity actually executed.
C6_SellCashConservation ==
    [][(pc = "exec" /\ orders # <<>> /\ Head(orders).action = "SELL") =>
         LET t == LastTrade(portfolio')
             proceeds == RMul(t.quantity, t.price)
         IN  portfolio'.cash =
                 RAdd(portfolio.cash,
                      RSub(proceeds, RMul(proceeds, cfg.commission_rate)))]_vars

C8_IsBuy(t, c) ==
    /\ t.action = "BUY"
    /\ t.commission = RMul(t.value, c)

C8_SpecExample(q, p1) ==
    /\ cfg.initial_capital = Num(100000)
    /\ cfg.slippage = Zero
    /\ q = Num(10)
    /\ p1 = Num(100)

C8_RoundTrip ==
    LET tr == portfolio.trades
        c == cfg.commission_rate
    IN  /\ (cfg.slippage = Zero /\ Len(tr) = 1 /\ C8_IsBuy(tr[1], c)
            /\ C8_SpecExample(tr[1].quantity, tr[1].price)) =>
               /\ c = Zero => portfolio.cash = Num(99000)
               /\ c = <<1, 2000>> => portfolio.cash = <<197999, 2>>
               /\ portfolio.positions[tr[1].symbol] = Num(10)
        /\ (/\ cfg.slippage = Zero
            /\ Len(tr) = 2
            /\ C8_IsBuy(tr[1], c)
            /\ tr[2].action = "SELL"
            /\ tr[2].symbol = tr[1].symbol
            /\ tr[2].quantity = tr[1].quantity) =>
               LET q == tr[1].quantity
                   p1 == tr[1].price
                   p2 == tr[2].price
               IN  /\ Held(portfolio) = {}
                   /\ portfolio.cash =
                          RAdd(RSub(cfg.initial_capital,
                                    RMul(RMul(q, p1), RAdd(One, c))),
                               RMul(RMul(q, p2), RSub(One, c)))
                   /\ (C8_SpecExample(q, p1) /\ p2 = Num(110)) =>
                          /\ c = Zero => portfolio.cash = Num(100100)
                          /\ c = <<1, 2000>> => portfolio.cash = <<2001979, 20>>
                          /\ (c = Zero /\ pc = "returned") =>
                                 /\ portfolio.equity = Num(100100)
                                 /\ ret.metrics.total_return = <<1, 1000>>

\* the round trip of the example with commission 0.0005 has been run to the
\* end: BUY 10 at 100, SELL 10 at 110
C8_Witness ==
    /\ pc = "returned"
    /\ ret.kind = "result"
    /\ cfg.commission_rate = <<1, 2000>>
    /\ Len(portfolio.trades) = 2
    /\ C8_IsBuy(portfolio.trades[1], cfg.commission_rate)
    /\ C8_SpecExample(portfolio.trades[1].quantity, portfolio.trades[1].price)
    /\ portfolio.trades[2].action = "SELL"
    /\ portfolio.trades[2].quantity = Num(10)
    /\ portfolio.trades[2].price = Num(110)
    /\ portfolio.cash = <<2001979, 20>>

\* C10: when get_bars returns an empty table run returns the error result
\* without raising, the strategy is never asked for signals, no order is
\* generated or executed, and the step leaves the ledger as it was.
C10_EmptyFetchHardStop ==
    /\ [](ret.kind = "error" =>
             /\ pc = "returned"
             /\ ~signals_asked
             /\ orders = <<>>
             /\ portfolio.trades = <<>>
             /\ results = <<>>)
    /\ [][ret'.kind = "error" => portfolio' = portfolio]_vars

\* run has returned the error result
C10_Witness ==
    /\ ret.kind = "error"
    /\ ret.error = "No data available"

\* C11: a symbol without a bar on some date never makes run raise, whatever
\* its signal that date: run never ends in an exception, and a run that
\* returns a result returns one daily row for every date.
C11_DataAnomaliesNeverFatal ==
    /\ pc # "raised"
    /\ (pc = "returned" /\ ret.kind = "result") => Len(ret.results) = dates

\* C12: the orders generated for one date name each symbol at most once, and
\* the trade log holds at most one trade per (date, symbol).
C12_OneOrderPerSymbolPerDay ==
    /\ \A j, k \in 1..Len(orders) :
          orders[j].symbol = orders[k].symbol => j = k
    /\ \A j, k \in 1..Len(portfolio.trades) :
          (/\ portfolio.trades[j].date = portfolio.trades[k].date
           /\ portfolio.trades[j].symbol = portfolio.trades[k].symbol) => j = k

\* C13: when orders are generated for a date, every symbol whose signal is
\* BUY while it is not held, with equity > 0 and utilization <= 0.7, gets a
\* BUY order for amount / close shares, amount being the sizer's result: not
\* scaled by a strength when the signal row has no momentum column, scaled
\* by the row's strength when it has one.
C13_Utilization(p) == RDiv(SumValues(p.positions), p.equity)

C13_Amounts(c, p) ==
    IF c.has_momentum
    THEN {calculate_position_size(c, p.equity, v, p.positions, None).value :
             v \in Strengths}
    ELSE {calculate_position_size(c, p.equity, None, p.positions, None).value}

C13_BuyRuleOptionalStrength ==
    [][(pc = "loop" /\ pc' = "exec") =>
         \A s \in DOMAIN day_signals' :
            (/\ day_signals'[s] = BUY
             /\ s \notin Held(portfolio)
             /\ RLt(Zero, portfolio.equity)
             /\ RLe(C13_Utilization(portfolio), SevenTenths)) =>
                \E k \in 1..Len(orders') :
                   \E amount \in C13_Amounts(cfg, portfolio) :
                      orders'[k] = BuyOrder(s, amount, current_data'[s])]_vars

\* C14: on a date whose signal for a held symbol is SELL, exactly one SELL
\* order is generated for the symbol, for the whole quantity held; executing
\* it records a SELL trade of that quantity and removes the symbol from the
\* positions; and when the date ends no symbol with a SELL signal is held.
C14_FullLiquidation ==
    /\ [][(pc = "loop" /\ pc' \in {"exec", "raised"}) =>
             \A s \in DOMAIN day_signals' :
                (day_signals'[s] = SELL /\ s \in Held(portfolio)) =>
                   /\ Cardinality({k \in 1..Len(orders') : orders'[k].symbol = s}) = 1
                   /\ \E k \in 1..Len(orders') :
                         /\ orders'[k].symbol = s
                         /\ orders'[k].action = "SELL"
                         /\ orders'[k].quantity = portfolio.positions[s]]_vars
    /\ [][(pc = "exec" /\ orders # <<>> /\ Head(orders).action = "SELL") =>
             /\ Len(portfolio'.trades) = Len(portfolio.trades) + 1
             /\ LastTrade(portfolio').action = "SELL"
             /\ LastTrade(portfolio').symbol = Head(orders).symbol
             /\ LastTrade(portfolio').quantity = Head(orders).quantity
             /\ Head(orders).symbol \notin Held(portfolio')]_vars
    /\ [][(pc = "exec" /\ pc' = "loop") =>
             \A s \in DOMAIN day_signals :
                day_signals[s] = SELL => s \notin Held(portfolio')]_vars

\* C15: generating the orders of a date leaves the ledger unchanged and
\* yields no order for a symbol whose signal is HOLD, BUY while it is held,
\* or SELL while it is not held; and in the trade log the trades of each
\* symbol alternate BUY, SELL, BUY, ... beginning with a BUY.
C15_Alternates(trades) ==
    \A k \in 1..Len(trades) :
       LET earlier == {j \in 1..(k - 1) : trades[j].symbol = trades[k].symbol}
       IN  IF earlier = {}
           THEN trades[k].action = "BUY"
           ELSE LET prev == CHOOSE j \in earlier : \A h \in earlier : h <= j
                IN  trades[k].action # trades[prev].action

C15_NoPyramidingNoSellingFlat ==
    /\ [][(pc = "loop" /\ pc' = "exec") =>
             /\ portfolio' = portfolio
             /\ \A s \in DOMAIN day_signals' :
                   (\/ day_signals'[s] = HOLD
                    \/ day_signals'[s] = BUY /\ s \in Held(portfolio)
                    \/ day_signals'[s] = SELL /\ s \notin Held(portfolio)) =>
                      \A k \in 1..Len(orders') : orders'[k].symbol # s]_vars
    /\ []C15_Alternates(portfolio.trades)

\* C16: for the portfolio values of every results table, the max_drawdown
\* metric lies between -1 and 0.
C16_DrawdownBounds ==
    ret.kind = "metrics" =>
        /\ ~FLt(ret.metrics.max_drawdown, Num(-1))
        /\ ~FLt(Zero, ret.metrics.max_drawdown)
        /\ ret.metrics.max_drawdown # NaN

\* C17: for a results table whose portfolio values all equal the initial
\* capital, whatever its length, total_return, volatility, sharpe_ratio and
\* max_drawdown are 0.
C17_FlatCurveMetrics ==
    (/\ ret.kind = "metrics"
     /\ \A k \in 1..Len(results) :
           results[k].portfolio_value = cfg.initial_capital) =>
        /\ ret.metrics.total_return = Zero
        /\ ret.metrics.volatility = Zero
        /\ ret.metrics.sharpe_ratio = Zero
        /\ ret.metrics.max_drawdown = Zero

\* C18: the win_rate of a returned run is wins / (wins + losses) over the
\* symbols with at least one SELL trade, a symbol being a win exactly when
\* its quantity-weighted average sell price is above its quantity-weighted
\* average buy price; it is 0 when no symbol has a SELL trade, and it lies
\* in [0, 1].
C18_Average(trades, action, s) ==
    LET of == SelectSeq(trades, LAMBDA t : t.action = action /\ t.symbol = s)
        Shares(ts) == [k \in 1..Len(ts) |-> ts[k].quantity]
        Paid(ts) == [k \in 1..Len(ts) |-> RMul(ts[k].price, ts[k].quantity)]
    IN  RDiv(SumOver(Paid(of)), SumOver(Shares(of)))

C18_Sellers(trades) ==
    {trades[k].symbol : k \in {j \in 1..Len(trades) : trades[j].action = "SELL"}}

C18_Wins(trades) ==
    {s \in C18_Sellers(trades) :
        RLt(C18_Average(trades, "BUY", s), C18_Average(trades, "SELL", s))}

C18_WinRate ==
    (pc = "returned" /\ ret.kind = "result") =>
        LET sellers == C18_Sellers(ret.trades)
            wins == C18_Wins(ret.trades)
        IN  /\ sellers = {} => ret.metrics.win_rate = Zero
            /\ sellers # {} =>
                  ret.metrics.win_rate =
                      Frac(Cardinality(wins), Cardinality(sellers))
            /\ RLe(Zero, ret.metrics.win_rate)
            /\ RLe(ret.metrics.win_rate, One)

\* a run has returned with one symbol sold above and another sold below its
\* buy price
C18_Witness ==
    /\ pc = "returned"
    /\ ret.kind = "result"
    /\ Cardinality(C18_Sellers(ret.trades)) = 2
    /\ Cardinality(C18_Wins(ret.trades)) = 1
    /\ ret.metrics.win_rate = <<1, 2>>

\* C19 as stated: a CombinedStrategy constructed with a sub-strategy whose
\* symbol set differs from the combined symbol set, or with a weights mapping
\* whose number of entries differs from the number of sub-strategies, raises
\* at construction time, before any signal generation or simulation, and the
\* entry point completes with a non-zero status.
C19_SymbolSetsDiffer ==
    \E k \in 1..Len(combined.call.strategies) :
        SeqSet(combined.call.strategies[k]) # SeqSet(combined.call.symbols)

C19_WeightCountDiffers ==
    /\ combined.call.weights.given
    /\ Cardinality(DOMAIN combined.call.weights.items)
           # Len(combined.call.strategies)

C19_FailedFast ==
    /\ combined.kind = "raised"
    /\ combined.status # 0
    /\ ~signals_asked
    /\ pc = "constructed"
    /\ results = <<>>

C19_InvalidConfigurationFailsFast ==
    (/\ combined.kind # "none"
     /\ C19_SymbolSetsDiffer \/ C19_WeightCountDiffers) => C19_FailedFast

\* C19, amended: the weights mapping is validated only when the aggregation
\* method is 'weighted'.  A construction with a sub-strategy whose symbol set
\* differs, or with method 'weighted' and a weights mapping whose number of
\* entries differs from the number of sub-strategies, raises, the entry
\* point completes with a non-zero status, and nothing is aggregated or
\* simulated afterwards.
C19_InvalidWeightedConfigurationFailsFast ==
    /\ [](( /\ combined.kind # "none"
            /\ \/ C19_SymbolSetsDiffer
               \/ /\ combined.call.aggregation_method = "weighted"
                  /\ C19_WeightCountDiffers) => C19_FailedFast)
    /\ [][combined.kind = "raised" => combined' = combined]_vars

\* the symbol sets agree (the lists differ), the method is 'weighted' and two
\* weights are given for one sub-strategy: the constructor has raised
C19_Witness ==
    /\ combined.kind = "raised"
    /\ combined.status = 1
    /\ combined.error = "ValueError"
    /\ ~C19_SymbolSetsDiffer
    /\ combined.call.symbols = <<"A", "A">>
    /\ combined.call.strategies = << <<"A">> >>
    /\ combined.call.aggregation_method = "weighted"
    /\ DOMAIN combined.call.weights.items = {0, 1}

\* C20: a CombinedStrategy whose aggregation_method is none of majority,
\* unanimous and weighted aggregates every list of signal arrays over
\* {BUY, SELL, HOLD} without raising, to the signal that a CombinedStrategy
\* constructed from the same arguments with method 'majority' gives on every
\* date.
C20_MajorityStrategy ==
    CombinedStrategy_init(combined.call.symbols, combined.call.strategies,
                          "majority", combined.call.weights).self

C20_UnknownMethodFallsBackToMajority ==
    (/\ combined.kind = "aggregated"
     /\ combined.self.aggregation_method
            \notin {"majority", "unanimous", "weighted"}) =>
        /\ ~combined.raised
        /\ combined.result =
               _aggregate_signals(C20_MajorityStrategy,
                                  combined.signal_arrays).value

\* method 'median', two sub-strategies: BUY against SELL on date 1 gives SELL,
\* BUY against HOLD on date 2 gives BUY
C20_Witness ==
    /\ combined.kind = "aggregated"
    /\ combined.self.aggregation_method = "median"
    /\ ~combined.raised
    /\ Len(combined.signal_arrays) = 2
    /\ combined.signal_arrays[1][1] = BUY
    /\ combined.signal_arrays[2][1] = SELL
    /\ combined.signal_arrays[1][2] = BUY
    /\ combined.signal_arrays[2][2] = HOLD
    /\ combined.result[1] = SELL
    /\ combined.result[2] = BUY

\* C22: a call of the position sizer with a volatility <= 0 does not fail
\* and returns the amount it returns for the same arguments without a
\* volatility, which is not negative.
C22_VolatilityGuard ==
    (/\ sizer.called
     /\ sizer.volatility # None
     /\ RLe(sizer.volatility, Zero)) =>
        /\ ~sizer.raised
        /\ sizer.value =
               calculate_position_size(cfg, sizer.portfolio_value,
                                       sizer.signal_strength,
                                       sizer.current_positions, None).value
        /\ RLe(Zero, sizer.value)

\* C24: a BUY that cannot be financed and whose shrunk quantity is <= 0 is
\* dropped without raising: no trade is appended and cash, positions and
\* equity stay what they were before the order.
C24_ShrunkQuantity(order) ==
    RDiv(RSub(portfolio.cash, Commission(cfg, order)), ExecutionPrice(cfg, order))

C24_Unfinanced(order) ==
    /\ order.action = "BUY"
    /\ RLt(portfolio.cash,
           RAdd(RMul(ExecutionPrice(cfg, order), order.quantity),
                Commission(cfg, order)))

C24_DroppedBuyLeavesLedger ==
    [][(/\ pc = "exec"
        /\ orders # <<>>
        /\ C24_Unfinanced(Head(orders))
        /\ RLe(C24_ShrunkQuantity(Head(orders)), Zero)) =>
         /\ pc' = "exec"
         /\ orders' = Tail(orders)
         /\ portfolio'.trades = portfolio.trades
         /\ portfolio'.cash = portfolio.cash
         /\ portfolio'.positions = portfolio.positions
         /\ portfolio'.equity = portfolio.equity]_vars

\* symbol A is listed twice and has a BUY signal: the day's orders are all
\* executed, the first BUY took all the cash and is the only trade of the
\* date, so the second BUY was dropped
C24_Witness ==
    /\ pc = "exec"
    /\ orders = <<>>
    /\ cfg.symbols = <<"A", "A">>
    /\ cfg.commission_rate # Zero
    /\ day_signals["A"] = BUY
    /\ Len(portfolio.trades) = 1
    /\ portfolio.trades[1].date = i
    /\ portfolio.trades[1].action = "BUY"
    /\ portfolio.cash = Zero

C26_InsufficientSharesClipped ==
    [][(/\ pc = "exec"
        /\ orders # <<>>
        /\ Head(orders).action = "SELL"
        /\ RLt(Get(portfolio.positions, Head(orders).symbol),
               Head(orders).quantity)) =>
         LET order == Head(orders)
             held == Get(portfolio.positions, order.symbol)
             t == LastTrade(portfolio')
         IN  /\ pc' = "exec"
             /\ Len(portfolio'.trades) = Len(portfolio.trades) + 1
             /\ t.quantity = RMin(order.quantity, held)
             /\ order.symbol \notin DOMAIN portfolio'.positions
             /\ \A s \in DOMAIN portfolio'.positions :
                   RLe(Zero, portfolio'.positions[s])
             /\ t.commission =
                    RMul(RMul(t.price, t.quantity), cfg.commission_rate)]_vars

\* C29: all orders of a day are generated from the ledger as it is when the
\* day starts, before any of them is executed, and are executed in the order
\* of the symbol list: generating changes no ledger field, each order's
\* quantity is computed from the day-start ledger (BUY: the sizer's amount for
\* the day-start equity and positions over the close, SELL: the day-start
\* position), executing takes the orders one by one from the head without
\* touching those that wait, and the trades of one date are in symbol-list
\* order in the trade log.
RECURSIVE C29_InListOrder(_, _)
C29_InListOrder(symbols, list) ==
    IF symbols = <<>> THEN TRUE
    ELSE IF list = <<>> THEN FALSE
    ELSE IF Head(symbols) = Head(list)
    THEN C29_InListOrder(Tail(symbols), Tail(list))
    ELSE C29_InListOrder(symbols, Tail(list))

C29_Symbols(records) == [k \in 1..Len(records) |-> records[k].symbol]

C29_TradesOf(date) == SelectSeq(portfolio.trades, LAMBDA t : t.date = date)

C29_FromDayStart(order, momentum) ==
    IF order.action = "BUY"
    THEN order.quantity =
             RDiv(calculate_position_size(cfg, portfolio.equity, momentum,
                                          portfolio.positions, None).value,
                  order.price)
    ELSE order.quantity = Get(portfolio.positions, order.symbol)

C29_WithinDayOrdering ==
    /\ [][(pc = "loop" /\ pc' = "exec") =>
            /\ portfolio' = portfolio
            /\ C29_InListOrder(C29_Symbols(orders'), cfg.symbols)
            /\ \A k \in 1..Len(orders') :
                  /\ orders'[k].price = current_data'[orders'[k].symbol]
                  /\ \E momentum \in Strengths \cup {Zero} :
                        C29_FromDayStart(orders'[k], momentum)]_vars
    /\ [][(pc = "exec" /\ orders # <<>>) =>
            /\ orders' = Tail(orders)
            /\ \/ portfolio' = portfolio
               \/ /\ Len(portfolio'.trades) = Len(portfolio.trades) + 1
                  /\ LastTrade(portfolio').symbol = Head(orders).symbol
                  /\ LastTrade(portfolio').action = Head(orders).action
                  /\ LastTrade(portfolio').date = i]_vars
    /\ [](\A date \in 1..MaxDays :
            C29_InListOrder(C29_Symbols(C29_TradesOf(date)), cfg.symbols))

\* A and B were both bought on one date, A first, each for the amount sized
\* from the equity the day started with
C29_Witness ==
    /\ cfg.symbols = <<"A", "B">>
    /\ Len(portfolio.trades) = 2
    /\ portfolio.trades[1].date = portfolio.trades[2].date
    /\ portfolio.trades[1].symbol = "A"
    /\ portfolio.trades[2].symbol = "B"
    /\ portfolio.trades[1].action = "BUY"
    /\ portfolio.trades[2].action = "BUY"
    /\ portfolio.trades[1].value = Num(1000)
    /\ portfolio.trades[2].value = Num(1000)

\* C23: in every run no order is generated or executed on the first date, no
\* trade carries the first date, and the first result row is the valuation
\* of the ledger for that date: its cash is the ledger's cash and its
\* portfolio_value is that cash plus the held positions at the first date's
\* closes.
C23_FirstDayValuationOnly ==
    /\ [][(pc = "loop" /\ i = 0 /\ i' = 1) =>
            /\ orders' = <<>>
            /\ portfolio' = portfolio
            /\ results'[1].cash = portfolio.cash
            /\ results'[1].portfolio_value =
                   MarkToMarket(portfolio, rerun.table[1].data).equity]_vars
    /\ [](\A k \in 1..Len(portfolio.trades) : portfolio.trades[k].date # 0)

\* C30: whenever run begins simulating, the ledger is the initial one (cash
\* and equity are initial_capital, no position, no trade), and a second call
\* of run on the same engine with the same inputs returns what the first
\* call returned.
C30_RunStartsFromInitialLedger ==
    /\ (pc = "loop" /\ i = 0) => portfolio = InitialPortfolio(cfg)
    /\ (pc = "returned" /\ rerun.calls = 2) => ret = rerun.first

\* C21: an order whose status is FILLED, CANCELED or REJECTED keeps that
\* status: no step of submit_order, cancel_order, get_order, update_orders or
\* cancel_all_orders, and no answer of the connector, changes the status of
\* an order that has reached one of the three.
C21_TerminalStatusesStay ==
    [][\A o \in 1..Len(execution.heap) :
          execution.heap[o].status \in TerminalStatuses
          => execution'.heap[o].status = execution.heap[o].status]_vars

\* the status the connector reports for an active order
C27_Reported(e, order) == e.table[e.heap[order].id]

\* C27: when update_orders returns and the connector has answered, no order
\* is left in active_orders that the connector reports as FILLED, CANCELED
\* or REJECTED, and every order that was active at the call and is reported
\* as FILLED is in the returned list.
C27_UpdateOrdersDetects ==
    [][(execution'.last.op = "update_orders" /\ execution'.last.up)
       => /\ \A s \in OrderSymbols :
               \A k \in 1..Len(execution'.active_orders[s]) :
                  C27_Reported(execution', execution'.active_orders[s][k])
                      \notin TerminalStatuses
          /\ \A s \in OrderSymbols :
               \A k \in 1..Len(execution.active_orders[s]) :
                  C27_Reported(execution, execution.active_orders[s][k])
                      = "filled"
                  => \E j \in 1..Len(execution'.last.value) :
                        execution'.last.value[j] =
                            execution.active_orders[s][k]]_vars

\* the active orders cancel_all_orders(symbol) is about
C28_Scope(e, symbol) ==
    IF symbol = "None" THEN get_active_orders(e) ELSE e.active_orders[symbol]

\* the connector answers, and every order in scope is a different order that
\* is still open at the connector, so that each cancellation is accepted
C28_Accepted(e, scope) ==
    /\ \A j, k \in 1..Len(scope) : j # k => scope[j] # scope[k]
    /\ \A k \in 1..Len(scope) :
          e.table[e.heap[scope[k]].id] \notin TerminalStatuses

\* C28: when the connector accepts every cancellation, cancel_all_orders
\* (for one symbol, or for all symbols) sets every active order in scope to
\* CANCELED, returns their number and leaves no active order in scope.
C28_CancelAllOrders ==
    [][(/\ execution'.last.op = "cancel_all_orders"
        /\ execution'.last.up
        /\ C28_Accepted(execution,
                        C28_Scope(execution, execution'.last.symbol)))
       => LET scope == C28_Scope(execution, execution'.last.symbol)
          IN  /\ \A k \in 1..Len(scope) :
                    execution'.heap[scope[k]].status = "canceled"
              /\ execution'.last.value = Len(scope)
              /\ C28_Scope(execution', execution'.last.symbol) = <<>>]_vars

====
